---- MODULE Spec2Model ----
(***************************************************************************)
(* Model of pitwall's deploy.Deployer (src/deploy/deployer.go): the six    *)
(* step pipeline Go() runs against a Nomad scheduler, with the scheduler,  *)
(* the job files and the datacenter config as the environment.             *)
(*                                                                         *)
(* Strings that the code formats (error messages, printed diagnostics)     *)
(* are sequences of tokens; the nil error is the empty sequence.           *)
(***************************************************************************)
EXTENDS Integers, Sequences, FiniteSets, TLC

\* ------------------------------------------------------------------ bounds

\* Query counters saturate at MaxCount (the polling loops are unbounded).
MaxCount == 3
\* How many times other actors write the job on the scheduler.
MaxOther == 2

\* ------------------------------------------------------- the Deployer's inputs

\* NewDeployer(root, dc, service, image, config, address)
Service == "svc"
Image == "img:new"
Address == "nomad:4646"
Root == "root"

Nil == <<>>

\* ---------------------------------------------------------------- job files

ServiceFileName == <<Root, "/nomad/service/", Service, ".nomad">>
SystemFileName == <<Root, "/nomad/system/", Service, ".nomad">>

Task(name, image) == [Name |-> name, Config |-> [image |-> image]]
TaskGroup(name, count, tasks) == [Name |-> name, Count |-> count, Tasks |-> tasks]

\* What jobspec.ParseFile yields for the job files the model draws from.
JobA ==
    [ID |-> "jobA", Type |-> "service", Region |-> "global", Datacenters |-> <<>>,
     Constraints |-> <<>>,
     TaskGroups |-> << TaskGroup(Service, 1, << Task(Service, "img:old"), Task("sidecar", "side:1") >>),
                       TaskGroup("other", 2, << Task(Service, "img:other") >>) >>]
JobSys ==
    [ID |-> "jobSys", Type |-> "system", Region |-> "global", Datacenters |-> <<"dc0">>,
     Constraints |-> << [LTarget |-> "${attr.kernel.name}", Operand |-> "=", RTarget |-> "linux"] >>,
     TaskGroups |-> << TaskGroup(Service, 1, << Task("worker", "img:old") >>) >>]
NilJob ==
    [ID |-> "", Type |-> "", Region |-> "", Datacenters |-> <<>>,
     Constraints |-> <<>>, TaskGroups |-> <<>>]

\* A job file is absent, malformed, or parses into one of the jobs above.
ServiceFiles == {"absent", "malformed", "jobA"}
SystemFiles == {"absent", "malformed", "jobSys"}

JobOf(file) ==
    CASE file = "jobA" -> JobA
      [] file = "jobSys" -> JobSys
      [] OTHER -> NilJob

\* jobspec.ParseFile(fn): the job and the error (Nil on success).
ParseFile(fn, file) ==
    IF file \in {"absent", "malformed"}
    THEN [job |-> NilJob, err |-> <<"parse", file>> \o fn]
    ELSE [job |-> JobOf(file), err |-> Nil]

\* ------------------------------------------------------- datacenter config

ServiceConfig(count, dcRegion, hostGroup, node) ==
    [Image |-> "img:static", Count |-> count, DcRegion |-> dcRegion,
     HostGroup |-> hostGroup, Node |-> node]

ServiceConfigs ==
    { ServiceConfig(0, "", "", ""), ServiceConfig(3, "r1", "app", "app1"),
      ServiceConfig(3, "r1", "", ""), ServiceConfig(0, "", "app", ""),
      ServiceConfig(0, "", "", "app1"), ServiceConfig(3, "", "app", "app1") }

OtherServiceConfig == ServiceConfig(1, "", "", "")

\* The datacenters and services of the config resolver's test.
DcNames == {"datacenter1", "datacenter2", "datacenter3"}

ServiceNames == {"service_test1", "service_test2", "service_test3"}

\* The entry of service s in datacenter dc: no two entries are equal.
ServiceIn(dc, s) == ServiceConfig(1, dc, s, "")

DatacenterConfig(dc, names) ==
    [Region |-> dc, Dc |-> dc, Services |-> [s \in names |-> ServiceIn(dc, s)]]

\* DeploymentConfig: any datacenters, each with any services.
DeploymentConfigs ==
    UNION { { [FederatedDcs |-> "datacenter1 datacenter2",
               Datacenters |-> [dc \in dcs |-> DatacenterConfig(dc, names[dc])]]
                : names \in [dcs -> SUBSET ServiceNames] }
            : dcs \in SUBSET DcNames }

\* The configuration TestLoadConfig loads: three datacenters, three service
\* names, service_test1 in datacenter1 only, service_test2 in two datacenters.
FixtureConfig ==
    [FederatedDcs |-> "datacenter1 datacenter2",
     Datacenters |->
        [dc \in DcNames |->
            DatacenterConfig(dc,
                IF dc = "datacenter1" THEN {"service_test1", "service_test2"}
                ELSE IF dc = "datacenter2" THEN {"service_test2"}
                ELSE {"service_test3"})]]

\* A nil *ServiceConfig.
NotFound == [found |-> FALSE, svc |-> ServiceConfig(0, "", "", "")]

NoLookup == [service |-> "", dc |-> "", ret |-> NotFound]

\* DcConfig: the services map holds the service or only another one.
DcConfigs ==
    { [Region |-> "region1", Dc |-> "dc1", Services |-> (Service :> s) @@ ("other" :> OtherServiceConfig)]
        : s \in ServiceConfigs }
    \cup { [Region |-> "region1", Dc |-> "dc1", Services |-> ("other" :> OtherServiceConfig)] }

\* ---------------------------------------------------------------- state

VARIABLES
    serviceFile,      \* the file <root>/nomad/service/<service>.nomad
    systemFile,       \* the file <root>/nomad/system/<service>.nomad
    config,           \* Deployer.config (*DcConfig)
    job,              \* Deployer.job
    cli,              \* Deployer.cli
    jobModifyIndex,   \* Deployer.jobModifyIndex
    jobEvalID,        \* Deployer.jobEvalID
    jobDeploymentID,  \* Deployer.jobDeploymentID
    pc,               \* where Go() is: a step about to run, a place in a loop, or "done"
    result,           \* the error Go() returns (Nil: none)
    ran,              \* the steps run so far, in order
    fn,               \* loadServiceConfig's local fn: the last file name tried
    ev,               \* getDeploymentID's locals ev, err: the last evaluation fetch
    dep,              \* status's locals dep, meta, err: the last deployment fetch
    al,               \* status's locals al, err: the allocation fetch
    waitIndex,        \* status's q.WaitIndex
    runningReads,     \* rounds of status's loop that read "running" (saturating)
    stdout,           \* what fmt.Printf wrote
    calls,            \* scheduler API calls issued, per operation (saturating)
    raftIndex,        \* the scheduler's state index
    schedJob,         \* the job on the scheduler: its modify index (0: none) and writer
    schedEval,        \* the evaluation on the scheduler
    schedDep,         \* the deployment on the scheduler
    schedAllocs,      \* the allocations of the deployment
    otherOps,         \* writes of other actors so far
    deploymentConfig, \* the DeploymentConfig the config resolver answers from
    lookup            \* the last FindForDc call: its arguments and what it returned

vars ==
    <<serviceFile, systemFile, config, job, cli, jobModifyIndex, jobEvalID,
      jobDeploymentID, pc, result, ran, fn, ev, dep, al, waitIndex, runningReads,
      stdout, calls, raftIndex, schedJob, schedEval, schedDep, schedAllocs, otherOps,
      deploymentConfig, lookup>>

deployerVars ==
    <<config, job, cli, jobModifyIndex, jobEvalID, jobDeploymentID, pc, result,
      ran, fn, ev, dep, al, waitIndex, runningReads, stdout, calls>>

schedVars == <<raftIndex, schedJob, schedEval, schedDep, schedAllocs, otherOps>>

fileVars == <<serviceFile, systemFile>>

resolverVars == <<deploymentConfig, lookup>>

ApiOps == {"validate", "plan", "register", "evalInfo", "depInfo", "allocs"}

Inc(n) == IF n < MaxCount THEN n + 1 ELSE n

Called(op) == [calls EXCEPT ![op] = Inc(@)]

ApiError(op) == <<"api error", op>>

NilCli == [connected |-> FALSE, Region |-> "", Address |-> ""]
NilEval == [err |-> Nil, DeploymentID |-> "", Status |-> "", Type |-> ""]
NilDep == [err |-> Nil, Status |-> "", StatusDescription |-> "", LastIndex |-> 0]
NilAl == [err |-> Nil, allocs |-> <<>>]

NoSchedEval == [ID |-> "", Status |-> "", DeploymentID |-> "", Type |-> ""]
NoSchedDep == [ID |-> "", Status |-> "", StatusDescription |-> ""]

\* --------------------------------------------------------------- Go()

\* Go() with register listed before plan.
StepsRegisterBeforePlan ==
    <<"loadServiceConfig", "connect", "validate", "register", "plan", "status">>

\* The steps of Go(), in the order it lists them.
Steps == <<"loadServiceConfig", "connect", "validate", "plan", "register", "status">>

StepIndex(s) == CHOOSE i \in 1..Len(Steps) : Steps[i] = s

\* runSteps: a step returned err. An error ends Go() with it; otherwise the next
\* step runs, and after the last one Go() returns nil.
StepReturn(s, err) ==
    /\ result' = err
    /\ pc' = IF err # Nil \/ StepIndex(s) = Len(Steps)
             THEN "done"
             ELSE Steps[StepIndex(s) + 1]

\* NewDeployer, and the environment Go() starts in.
Constructed ==
    /\ serviceFile \in ServiceFiles
    /\ systemFile \in SystemFiles
    /\ config \in DcConfigs
    /\ job = NilJob
    /\ cli = NilCli
    /\ jobModifyIndex = 0
    /\ jobEvalID = ""
    /\ jobDeploymentID = ""
    /\ pc = Steps[1]
    /\ result = Nil
    /\ ran = <<>>
    /\ fn = <<>>
    /\ ev = NilEval
    /\ dep = NilDep
    /\ al = NilAl
    /\ waitIndex = 0
    /\ runningReads = 0
    /\ stdout = <<>>
    /\ calls = [op \in ApiOps |-> 0]
    /\ raftIndex = 1
    /\ schedJob \in {[index |-> 0, owner |-> "none"], [index |-> 1, owner |-> "other"]}
    /\ schedEval = NoSchedEval
    /\ schedDep = NoSchedDep
    /\ schedAllocs = <<>>
    /\ otherOps = 0

Init ==
    /\ Constructed
    /\ deploymentConfig = FixtureConfig
    /\ lookup = NoLookup

\* ---------------------------------------------------- loadServiceConfig

checkServiceConfig ==
    IF Service \notin DOMAIN config.Services
    THEN <<"service ", "%!d(string=", Service, ")", " not found in datacenter config">>
    ELSE Nil

\* loadServiceConfig without the second job-set.
LoadJobFileServiceOnly ==
    [fn |-> ServiceFileName] @@ ParseFile(ServiceFileName, serviceFile)

\* The file loadServiceConfig ends up with: the service job-set's, and the system
\* job-set's when parsing the first returned an error.
LoadJobFile ==
    LET first == ParseFile(ServiceFileName, serviceFile)
    IN  IF first.err # Nil
        THEN [fn |-> SystemFileName] @@ ParseFile(SystemFileName, systemFile)
        ELSE [fn |-> ServiceFileName] @@ first

loadServiceConfig ==
    /\ pc = "loadServiceConfig"
    /\ ran' = Append(ran, "loadServiceConfig")
    /\ LET p == LoadJobFile
       IN  /\ fn' = p.fn
           /\ IF p.err # Nil
              THEN /\ job' = job
                   /\ StepReturn("loadServiceConfig", p.err)
              ELSE /\ job' = p.job
                   /\ StepReturn("loadServiceConfig", checkServiceConfig)
    /\ UNCHANGED <<config, cli, jobModifyIndex, jobEvalID, jobDeploymentID, ev, dep,
                   al, waitIndex, runningReads, stdout, calls>>
    /\ UNCHANGED <<schedVars, fileVars, resolverVars>>

\* ---------------------------------------------------------------- connect

\* api.Config.ClientConfig(region, address, tlsEnabled) as connect calls it.
ClientConfig == [connected |-> TRUE, Region |-> config.Dc, Address |-> Address]

connect ==
    /\ pc = "connect"
    /\ ran' = Append(ran, "connect")
    /\ \E ok \in BOOLEAN :
         IF ok
         THEN /\ cli' = ClientConfig
              /\ StepReturn("connect", Nil)
         ELSE /\ cli' = cli
              /\ StepReturn("connect", <<"new client failed">>)
    /\ UNCHANGED <<config, job, jobModifyIndex, jobEvalID, jobDeploymentID, fn, ev,
                   dep, al, waitIndex, runningReads, stdout, calls>>
    /\ UNCHANGED <<schedVars, fileVars, resolverVars>>

\* --------------------------------------------------------------- validate

\* api.Job.Constrain and api.NewConstraint
NewConstraint(left, operand, right) == [LTarget |-> left, Operand |-> operand, RTarget |-> right]

Constrain(j, c) == [j EXCEPT !.Constraints = Append(@, c)]

\* api.Job.AddDatacenter
AddDatacenter(j, dc) == [j EXCEPT !.Datacenters = Append(@, dc)]

\* Three constraints, whether the fields of s are empty or not.
WithConstraintsAlways(j, s) ==
    Constrain(Constrain(Constrain(j,
        NewConstraint("${meta.dc_region}", "=", s.DcRegion)),
        NewConstraint("${meta.hostgroup}", "=", s.HostGroup)),
        NewConstraint("${meta.node}", "=", s.Node))

\* The placement constraints validate adds for the service's config s.
WithConstraints(j, s) ==
    LET j1 == IF s.DcRegion # "" THEN Constrain(j, NewConstraint("${meta.dc_region}", "=", s.DcRegion)) ELSE j
        j2 == IF s.HostGroup # "" THEN Constrain(j1, NewConstraint("${meta.hostgroup}", "=", s.HostGroup)) ELSE j1
    IN  IF s.Node # "" THEN Constrain(j2, NewConstraint("${meta.node}", "=", s.Node)) ELSE j2

\* The loop writing the image of every task of the group.
WithImageAllTasks(tasks) ==
    [i \in DOMAIN tasks |-> [tasks[i] EXCEPT !.Config = [@ EXCEPT !.image = Image]]]

\* The loop over the tasks of a task group named as the service.
WithImage(tasks) ==
    [i \in DOMAIN tasks |->
        IF tasks[i].Name = Service
        THEN [tasks[i] EXCEPT !.Config = [@ EXCEPT !.image = Image]]
        ELSE tasks[i]]

\* The loop over the job's task groups, taking the config's count as it is.
WithOverridesAnyCount(tgs, s) ==
    [i \in DOMAIN tgs |->
        IF tgs[i].Name = Service
        THEN [tgs[i] EXCEPT !.Count = s.Count, !.Tasks = WithImage(@)]
        ELSE tgs[i]]

\* The loop over the job's task groups.
WithOverrides(tgs, s) ==
    [i \in DOMAIN tgs |->
        IF tgs[i].Name = Service
        THEN [tgs[i] EXCEPT !.Count = IF s.Count > 0 THEN s.Count ELSE @,
                            !.Tasks = WithImage(@)]
        ELSE tgs[i]]

\* s.Image = d.image runs iff a task named as the service is in a group named so.
ImageWritten(tgs) ==
    \E i \in DOMAIN tgs :
        /\ tgs[i].Name = Service
        /\ \E k \in DOMAIN tgs[i].Tasks : tgs[i].Tasks[k].Name = Service

MergedJob(j, c) ==
    LET s == c.Services[Service]
        j1 == AddDatacenter([j EXCEPT !.Region = c.Region], c.Dc)
        j2 == WithConstraints(j1, s)
    IN  [j2 EXCEPT !.TaskGroups = WithOverrides(@, s)]

MergedConfig(j, c) ==
    IF ImageWritten(j.TaskGroups)
    THEN [c EXCEPT !.Services[Service].Image = Image]
    ELSE c

validate ==
    /\ pc = "validate"
    /\ ran' = Append(ran, "validate")
    /\ job' = MergedJob(job, config)
    /\ config' = MergedConfig(job, config)
    /\ calls' = Called("validate")
    /\ \E ok \in BOOLEAN :
         StepReturn("validate", IF ok THEN Nil ELSE ApiError("validate"))
    /\ UNCHANGED <<cli, jobModifyIndex, jobEvalID, jobDeploymentID, fn, ev, dep, al,
                   waitIndex, runningReads, stdout>>
    /\ UNCHANGED <<schedVars, fileVars, resolverVars>>

\* ------------------------------------------------------------------- plan

\* plan dropping the index it was given.
PlannedIndexDropped == jobModifyIndex

\* jp.JobModifyIndex: the job's modify index when the plan ran.
PlannedIndex == schedJob.index

plan ==
    /\ pc = "plan"
    /\ ran' = Append(ran, "plan")
    /\ calls' = Called("plan")
    /\ \E ok \in BOOLEAN :
         IF ok
         THEN /\ jobModifyIndex' = PlannedIndex
              /\ StepReturn("plan", Nil)
         ELSE /\ jobModifyIndex' = jobModifyIndex
              /\ StepReturn("plan", ApiError("plan"))
    /\ UNCHANGED <<config, job, cli, jobEvalID, jobDeploymentID, fn, ev, dep, al,
                   waitIndex, runningReads, stdout>>
    /\ UNCHANGED <<schedVars, fileVars, resolverVars>>

\* --------------------------------------------------------------- register

\* register passing whatever index the job has now: a register that enforces nothing.
EnforceIndexCurrent == schedJob.index

\* The modify index register passes to EnforceRegister.
EnforceIndex == jobModifyIndex

\* The scheduler's side of EnforceRegister: the job is written only if the index
\* passed matches the job's current index (zero: only if the job is new).
EnforceOk(index) == index = schedJob.index

\* register calling EnforceRegister again after an error.
RegisterRetried(err) == pc' = pc /\ result' = result

\* register returning the error of EnforceRegister.
RegisterFailed(err) == StepReturn("register", err)

register ==
    /\ pc = "register"
    /\ ran' = Append(ran, "register")
    /\ calls' = Called("register")
    /\ \E ok \in BOOLEAN :
         IF ok /\ EnforceOk(EnforceIndex)
         THEN /\ raftIndex' = raftIndex + 1
              /\ schedJob' = [index |-> raftIndex + 1, owner |-> "deployer"]
              /\ schedEval' = [ID |-> "eval1", Status |-> "pending",
                               DeploymentID |-> "", Type |-> job.Type]
              /\ jobEvalID' = "eval1"
              /\ pc' = "getDeploymentID"
              /\ result' = result
         ELSE /\ UNCHANGED <<raftIndex, schedJob, schedEval, jobEvalID>>
              /\ RegisterFailed(
                    IF ok THEN <<"api error", "register", "job modify index conflict">>
                          ELSE ApiError("register"))
    /\ UNCHANGED <<config, job, cli, jobModifyIndex, jobDeploymentID, fn, ev, dep, al,
                   waitIndex, runningReads, stdout>>
    /\ UNCHANGED <<schedDep, schedAllocs, otherOps, fileVars, resolverVars>>

\* The evaluation jobEvalID names, as Evaluations().Info returns it.
EvalInfo(ok) ==
    IF ok /\ jobEvalID = schedEval.ID
    THEN [err |-> Nil, DeploymentID |-> schedEval.DeploymentID,
          Status |-> schedEval.Status, Type |-> schedEval.Type]
    ELSE [NilEval EXCEPT !.err = ApiError("evalInfo")]

\* getDeploymentID taking a failed fetch for an evaluation still pending.
EvalPendingRetryOnError(e) ==
    /\ e.DeploymentID = ""
    /\ ~(e.Status = "complete" /\ e.Type # "service")

\* getDeploymentID waiting for a deployment identifier only.
EvalPendingDeploymentOnly(e) ==
    /\ e.err = Nil
    /\ e.DeploymentID = ""

\* getDeploymentID leaving its loop on any complete evaluation, whatever the type.
EvalPendingAnyType(e) ==
    /\ e.err = Nil
    /\ e.DeploymentID = ""
    /\ e.Status # "complete"

\* Whether getDeploymentID's loop goes on after the fetch e.
EvalPending(e) ==
    /\ e.err = Nil
    /\ e.DeploymentID = ""
    /\ ~(e.Status = "complete" /\ e.Type # "service")

\* One round of getDeploymentID's loop, up to its return or its sleep.
getDeploymentID ==
    /\ pc = "getDeploymentID"
    /\ calls' = Called("evalInfo")
    /\ \E ok \in BOOLEAN :
         /\ ev' = EvalInfo(ok)
         /\ jobDeploymentID' = IF ev'.err = Nil /\ ev'.DeploymentID # ""
                               THEN ev'.DeploymentID
                               ELSE jobDeploymentID
         /\ IF EvalPending(ev')
            THEN pc' = "sleep" /\ result' = result
            ELSE StepReturn("register", ev'.err)
    /\ UNCHANGED <<config, job, cli, jobModifyIndex, jobEvalID, ran, fn, dep, al,
                   waitIndex, runningReads, stdout>>
    /\ UNCHANGED <<schedVars, fileVars, resolverVars>>

\* time.Sleep(time.Second), then the next round.
sleep ==
    /\ pc = "sleep"
    /\ pc' = "getDeploymentID"
    /\ UNCHANGED <<config, job, cli, jobModifyIndex, jobEvalID, jobDeploymentID,
                   result, ran, fn, ev, dep, al, waitIndex, runningReads, stdout,
                   calls>>
    /\ UNCHANGED <<schedVars, fileVars, resolverVars>>

\* ----------------------------------------------------------------- status

Event(driver, download, validation, setup, vault) ==
    [DriverError |-> driver, DownloadError |-> download, ValidationError |-> validation,
     SetupError |-> setup, VaultError |-> vault]

QuietEvent == Event("", "", "", "", "")
DriverEvent == Event("driver boom", "", "", "", "")
SetupVaultEvent == Event("", "", "", "setup boom", "vault boom")

\* Allocation lists the scheduler may hold: each allocation is its task states,
\* each task state its events.
AllocLists ==
    { <<>>,
      << << <<QuietEvent, DriverEvent>> >> >>,
      << << <<QuietEvent>> >>, << <<SetupVaultEvent>>, <<DriverEvent>> >> >> }

\* warn renders one error string for the terminal.
warn(str) == << [warn |-> str] >>

\* The test of an event looking at the driver error only.
HasErrorDriverOnly(e) == e.DriverError # ""

HasError(e) ==
    \/ e.DriverError # ""
    \/ e.DownloadError # ""
    \/ e.ValidationError # ""
    \/ e.SetupError # ""
    \/ e.VaultError # ""

\* What status prints for one event.
PrintEvent(e) ==
    IF HasError(e)
    THEN warn(e.DriverError) \o warn(e.DownloadError) \o warn(e.ValidationError)
         \o warn(e.SetupError) \o warn(e.VaultError)
    ELSE <<>>

RECURSIVE PrintEvents(_)
PrintEvents(events) ==
    IF events = <<>> THEN <<>>
    ELSE PrintEvent(Head(events)) \o PrintEvents(Tail(events))

RECURSIVE PrintTaskStates(_)
PrintTaskStates(states) ==
    IF states = <<>> THEN <<>>
    ELSE PrintEvents(Head(states)) \o PrintTaskStates(Tail(states))

RECURSIVE PrintAllocs(_)
PrintAllocs(allocs) ==
    IF allocs = <<>> THEN <<>>
    ELSE PrintTaskStates(Head(allocs)) \o PrintAllocs(Tail(allocs))

\* The error status returns for a deployment that ended unsuccessfully.
DeploymentFailed(d) == <<"deployment failed status: ", d.Status, " ", d.StatusDescription>>

\* The deployment depID names, as Deployments().Info returns it with its meta;
\* a stale read may report an index behind the scheduler's.
DeploymentInfo(ok, lastIndex) ==
    IF ok /\ jobDeploymentID # "" /\ jobDeploymentID = schedDep.ID
    THEN [err |-> Nil, Status |-> schedDep.Status,
          StatusDescription |-> schedDep.StatusDescription, LastIndex |-> lastIndex]
    ELSE [NilDep EXCEPT !.err = ApiError("depInfo")]

\* A query option left as it was sent.
WaitIndexKept(d) == waitIndex

\* q.WaitIndex = meta.LastIndex
NextWaitIndex(d) == d.LastIndex

\* Deployments().Allocations(depID)
AllocationsOf(ok) ==
    IF ok THEN [err |-> Nil, allocs |-> schedAllocs]
    ELSE [err |-> ApiError("allocs"), allocs |-> <<>>]

\* status testing the evaluation identifier instead.
NoEvaluation == jobEvalID = ""

\* status returns at once when register captured no deployment.
NoDeployment == jobDeploymentID = ""

\* status giving up on a deployment still running after two reads.
DeploymentRunningCapped(d) == d.Status = "running" /\ runningReads < 2

DeploymentRunning(d) == d.Status = "running"

\* status comparing with the evaluation's word for success.
DeploymentComplete(d) == d.Status = "complete"

\* status taking every deployment that did not fail for a successful one.
DeploymentNotFailed(d) == d.Status # "failed"

DeploymentSuccessful(d) == d.Status = "successful"

\* status returning the error of the allocation fetch when there is one.
FailureErrorOfFetch(d, a) == IF a.err # Nil THEN a.err ELSE DeploymentFailed(d)

\* What status returns for the unsuccessful deployment d after the allocation
\* fetch a: an error of that fetch is dropped.
FailureError(d, a) == DeploymentFailed(d)

\* What status prints after the allocation fetch a.
FailurePrint(a) == IF a.err = Nil THEN PrintAllocs(a.allocs) ELSE <<>>

\* status up to its loop: without a deployment there is nothing to wait for.
status ==
    /\ pc = "status"
    /\ ran' = Append(ran, "status")
    /\ IF NoDeployment
       THEN /\ StepReturn("status", Nil)
            /\ waitIndex' = waitIndex
       ELSE /\ waitIndex' = 1
            /\ pc' = "statusLoop"
            /\ result' = result
    /\ UNCHANGED <<config, job, cli, jobModifyIndex, jobEvalID, jobDeploymentID, fn,
                   ev, dep, al, runningReads, stdout, calls>>
    /\ UNCHANGED <<schedVars, fileVars, resolverVars>>

\* One round of status's loop.
statusLoop ==
    /\ pc = "statusLoop"
    /\ \E ok \in BOOLEAN, lastIndex \in {raftIndex - 1, raftIndex}, allocsOk \in BOOLEAN :
         /\ dep' = DeploymentInfo(ok, lastIndex)
         /\ IF dep'.err # Nil
            THEN /\ StepReturn("status", dep'.err)
                 /\ calls' = Called("depInfo")
                 /\ UNCHANGED <<waitIndex, runningReads, al, stdout>>
            ELSE /\ waitIndex' = NextWaitIndex(dep')
                 /\ IF DeploymentRunning(dep')
                    THEN /\ calls' = Called("depInfo")
                         /\ runningReads' = Inc(runningReads)
                         /\ UNCHANGED <<pc, result, al, stdout>>
                    ELSE IF DeploymentSuccessful(dep')
                    THEN /\ calls' = Called("depInfo")
                         /\ StepReturn("status", Nil)
                         /\ UNCHANGED <<runningReads, al, stdout>>
                    ELSE /\ calls' = [calls EXCEPT !["depInfo"] = Inc(@), !["allocs"] = Inc(@)]
                         /\ al' = AllocationsOf(allocsOk)
                         /\ stdout' = stdout \o FailurePrint(al')
                         /\ StepReturn("status", FailureError(dep', al'))
                         /\ UNCHANGED runningReads
    /\ UNCHANGED <<config, job, cli, jobModifyIndex, jobEvalID, jobDeploymentID, ran,
                   fn, ev>>
    /\ UNCHANGED <<schedVars, fileVars, resolverVars>>

\* ---------------------------------------------------------- the scheduler

\* Another actor registers its own version of the job, between the Deployer's plan
\* and its register (what others wrote before the plan is in Init).
OtherRegister ==
    /\ pc = "register"
    /\ otherOps < MaxOther
    /\ otherOps' = otherOps + 1
    /\ raftIndex' = raftIndex + 1
    /\ schedJob' = [index |-> raftIndex + 1, owner |-> "other"]
    /\ UNCHANGED <<schedEval, schedDep, schedAllocs>>
    /\ UNCHANGED <<deployerVars, fileVars, resolverVars>>

\* Another actor purges the job.
OtherPurge ==
    /\ pc = "register"
    /\ otherOps < MaxOther
    /\ schedJob.index # 0
    /\ otherOps' = otherOps + 1
    /\ raftIndex' = raftIndex + 1
    /\ schedJob' = [index |-> 0, owner |-> "none"]
    /\ UNCHANGED <<schedEval, schedDep, schedAllocs>>
    /\ UNCHANGED <<deployerVars, fileVars, resolverVars>>

EvalTerminal == {"complete", "failed"}

\* The evaluation reaches a terminal status.
EvalEnds ==
    /\ pc # "done"
    /\ schedEval.Status = "pending"
    /\ \E st \in EvalTerminal : schedEval' = [schedEval EXCEPT !.Status = st]
    /\ UNCHANGED <<raftIndex, schedJob, schedDep, schedAllocs, otherOps>>
    /\ UNCHANGED <<deployerVars, fileVars, resolverVars>>

\* The scheduler creates the deployment of the evaluation.
DeploymentCreated ==
    /\ pc # "done"
    /\ schedEval.ID # ""
    /\ schedEval.Status \in {"pending", "complete"}
    /\ schedEval.DeploymentID = ""
    /\ schedEval' = [schedEval EXCEPT !.DeploymentID = "dep1"]
    /\ schedDep' = [ID |-> "dep1", Status |-> "running",
                    StatusDescription |-> "Deployment is running"]
    /\ raftIndex' = raftIndex + 1
    /\ UNCHANGED <<schedJob, schedAllocs, otherOps>>
    /\ UNCHANGED <<deployerVars, fileVars, resolverVars>>

\* How a deployment may end: its status, its description and its allocations.
Ending(st, desc, allocs) == [Status |-> st, StatusDescription |-> desc, allocs |-> allocs]

DeploymentEndings ==
    { Ending("successful", "Deployment completed successfully", <<>>),
      Ending("cancelled", "Cancelled because job is stopped", <<>>) }
    \cup { Ending("failed", "Failed due to unhealthy allocations", a) : a \in AllocLists \ {<<>>} }

\* The deployment ends, with the allocations it leaves.
DeploymentEnds ==
    /\ pc # "done"
    /\ schedDep.Status = "running"
    /\ \E t \in DeploymentEndings :
         /\ schedDep' = [schedDep EXCEPT !.Status = t.Status,
                                         !.StatusDescription = t.StatusDescription]
         /\ schedAllocs' = t.allocs
    /\ raftIndex' = raftIndex + 1
    /\ UNCHANGED <<schedJob, schedEval, otherOps>>
    /\ UNCHANGED <<deployerVars, fileVars, resolverVars>>

Next ==
    \/ loadServiceConfig
    \/ connect
    \/ validate
    \/ plan
    \/ register
    \/ getDeploymentID
    \/ sleep
    \/ status
    \/ statusLoop
    \/ OtherRegister
    \/ OtherPurge
    \/ EvalEnds
    \/ DeploymentCreated
    \/ DeploymentEnds

Spec == Init /\ [][Next]_vars

\* The Deployer's own steps: Go() is one thread that runs until it returns.
DeployerNext ==
    \/ loadServiceConfig
    \/ connect
    \/ validate
    \/ plan
    \/ register
    \/ getDeploymentID
    \/ sleep
    \/ status
    \/ statusLoop

\* One datacenter config and a job file that parses, for the liveness checks.
InitFair ==
    /\ Init
    /\ serviceFile \in {"absent", "jobA"}
    /\ systemFile = "jobSys"
    /\ config.Services = (Service :> ServiceConfig(3, "r1", "app", "app1")) @@ ("other" :> OtherServiceConfig)

\* The Deployer keeps running; the scheduler and the other actors owe nothing.
FairSpec == InitFair /\ [][Next]_vars /\ WF_vars(DeployerNext)

\* -------------------------------------------------------- config resolver

\* Find: the service in whichever datacenter has it.
FindInAnyDc(cfg, s, dc) ==
    IF \E d \in DOMAIN cfg.Datacenters : s \in DOMAIN cfg.Datacenters[d].Services
    THEN [found |-> TRUE,
          svc |-> cfg.Datacenters[CHOOSE d \in DOMAIN cfg.Datacenters :
                                     s \in DOMAIN cfg.Datacenters[d].Services].Services[s]]
    ELSE NotFound

\* DeploymentConfig.FindForDc
FindForDc(cfg, s, dc) ==
    IF dc \in DOMAIN cfg.Datacenters
    THEN IF s \in DOMAIN cfg.Datacenters[dc].Services
         THEN [found |-> TRUE, svc |-> cfg.Datacenters[dc].Services[s]]
         ELSE NotFound
    ELSE NotFound

\* A caller asks for a service in a datacenter, known or not.
FindForDcCall ==
    /\ \E s \in ServiceNames \cup {"service_test4"}, dc \in DcNames \cup {"datacenter4"} :
         lookup' = [service |-> s, dc |-> dc, ret |-> FindForDc(deploymentConfig, s, dc)]
    /\ deploymentConfig' = deploymentConfig
    /\ UNCHANGED <<deployerVars, schedVars, fileVars>>

\* A DeploymentConfig loaded from any valid source set, beside an idle Deployer.
ResolverInit ==
    /\ Constructed
    /\ serviceFile = "jobA"
    /\ systemFile = "jobSys"
    /\ config.Services = (Service :> ServiceConfig(0, "", "", "")) @@ ("other" :> OtherServiceConfig)
    /\ schedJob.index = 0
    /\ deploymentConfig \in DeploymentConfigs
    /\ lookup = NoLookup

ResolverNext == FindForDcCall

ResolverSpec == ResolverInit /\ [][ResolverNext]_vars

\* ------------------------------------------------------------- properties

Range(seq) == {seq[i] : i \in DOMAIN seq}

Last(seq) == seq[Len(seq)]

IsPrefix(a, b) == Len(a) <= Len(b) /\ \A i \in DOMAIN a : a[i] = b[i]

Contains(seq, x) == x \in Range(seq)

\* The order the specification gives for the pipeline.
GoOrder == <<"loadServiceConfig", "connect", "validate", "plan", "register", "status">>

\* The step an error comes from, by its text.
ErrorStep(e) ==
    CASE e[1] \in {"parse", "service "} -> "loadServiceConfig"
      [] e[1] = "new client failed" -> "connect"
      [] e[1] = "deployment failed status: " -> "status"
      [] e[1] = "api error" /\ e[2] \in {"validate", "plan", "register"} -> e[2]
      [] e[1] = "api error" /\ e[2] = "evalInfo" -> "register"
      [] e[1] = "api error" /\ e[2] \in {"depInfo", "allocs"} -> "status"

\* The step that issues a scheduler call.
StepOfCall(op) ==
    CASE op \in {"validate", "plan", "register"} -> op
      [] op = "evalInfo" -> "register"
      [] op \in {"depInfo", "allocs"} -> "status"

\* C1: Go() runs the steps in the fixed order loadServiceConfig, connect,
\* validate, plan, register, status; a step runs only after every earlier one
\* returned no error; once a step has returned an error Go() has returned, with
\* that step's error, and no later step and no later scheduler call is made; Go()
\* returns nil only after all six steps.
C1_FailFastSequential ==
    /\ IsPrefix(ran, GoOrder)
    /\ result # Nil => pc = "done" /\ ErrorStep(result) = Last(ran)
    /\ pc = "done" /\ result = Nil => ran = GoOrder
    /\ \A op \in ApiOps : calls[op] > 0 => StepOfCall(op) \in Range(ran)

C1_Witness ==
    /\ pc = "done"
    /\ result = ApiError("plan")
    /\ ran = <<"loadServiceConfig", "connect", "validate", "plan">>
    /\ calls["register"] = 0

\* C2: when the job's modify index on the scheduler differs, at the Deployer's
\* register, from the index its plan captured (another actor wrote the job in
\* between), register fails: Go() returns an error, the job on the scheduler is
\* left as it was, no evaluation is created or polled and status does not run.
C2_OptimisticConcurrency ==
    [][ (pc = "register" /\ pc' # pc /\ schedJob.index # jobModifyIndex)
        => /\ pc' = "done"
           /\ result' # Nil
           /\ schedJob' = schedJob
           /\ schedEval' = schedEval
           /\ jobEvalID' = ""
           /\ calls'["evalInfo"] = 0
           /\ calls'["depInfo"] = 0
           /\ "status" \notin Range(ran') ]_vars

C2_Witness ==
    /\ pc = "done"
    /\ Last(ran) = "register"
    /\ otherOps > 0
    /\ schedJob.owner = "other"
    /\ schedJob.index # jobModifyIndex
    /\ result = <<"api error", "register", "job modify index conflict">>

\* C3: a round of the evaluation-wait loop leaves the loop in exactly three
\* cases: the fetch failed (Go() returns its error); the evaluation fetched has a
\* deployment identifier (captured in jobDeploymentID, success); it has none, is
\* "complete" and its type is not service (success, jobDeploymentID stays empty).
\* In every other case, a complete service-type evaluation without a deployment
\* included, the loop sleeps and then fetches again.
C3_EvalLoopExits ==
    [][ /\ (pc = "getDeploymentID" /\ pc' # pc)
           => /\ ev'.err = Nil => /\ ev'.DeploymentID = schedEval.DeploymentID
                                  /\ ev'.Status = schedEval.Status
                                  /\ ev'.Type = schedEval.Type
              /\ \/ /\ ev'.err # Nil
                    /\ pc' = "done" /\ result' = ev'.err
                    /\ jobDeploymentID' = jobDeploymentID
                 \/ /\ ev'.err = Nil /\ ev'.DeploymentID # ""
                    /\ pc' = "status" /\ result' = Nil
                    /\ jobDeploymentID' = ev'.DeploymentID
                 \/ /\ ev'.err = Nil /\ ev'.DeploymentID = ""
                    /\ ev'.Status = "complete" /\ ev'.Type # "service"
                    /\ pc' = "status" /\ result' = Nil
                    /\ jobDeploymentID' = ""
                 \/ /\ ev'.err = Nil /\ ev'.DeploymentID = ""
                    /\ ~(ev'.Status = "complete" /\ ev'.Type # "service")
                    /\ pc' = "sleep"
                    /\ jobDeploymentID' = ""
        /\ (pc = "sleep" /\ pc' # pc) => pc' = "getDeploymentID" ]_vars

C3_Witness ==
    /\ pc = "sleep"
    /\ ev.err = Nil
    /\ ev.Status = "complete"
    /\ ev.Type = "service"
    /\ ev.DeploymentID = ""
    /\ calls["evalInfo"] >= 2

InEvalLoop == pc \in {"getDeploymentID", "sleep"}

\* C4 (as claimed): once the evaluation is terminal ("complete") or carries a
\* deployment identifier, the evaluation-wait loop eventually ends.
C4_TerminalEvalEndsLoop ==
    (InEvalLoop /\ (schedEval.Status = "complete" \/ schedEval.DeploymentID # ""))
        ~> ~InEvalLoop

\* C4 (amended): with the Deployer running and every fetch returning, once the
\* evaluation carries a deployment identifier, or is "complete" with a type other
\* than service, the evaluation-wait loop eventually ends and register returns.
C4_EvalLoopTerminates ==
    (InEvalLoop /\ (\/ schedEval.DeploymentID # ""
                    \/ schedEval.Status = "complete" /\ schedEval.Type # "service"))
        ~> ~InEvalLoop

C4_Witness ==
    /\ pc = "status"
    /\ calls["evalInfo"] >= 2
    /\ ev.err = Nil
    /\ ev.DeploymentID = ""
    /\ ev.Status = "complete"
    /\ ev.Type = "system"

\* The events of an allocation list, and the error texts they carry.
EventsOf(allocs) ==
    UNION { UNION { Range(allocs[i][j]) : j \in DOMAIN allocs[i] } : i \in DOMAIN allocs }

ErrorTexts(allocs) ==
    UNION { {e.DriverError, e.DownloadError, e.ValidationError, e.SetupError, e.VaultError}
              : e \in EventsOf(allocs) } \ {""}

\* status read a terminal status other than "successful" and fetched the allocations.
FailedWithAllocs ==
    /\ pc = "done"
    /\ dep.err = Nil
    /\ dep.Status \notin {"", "running", "successful"}
    /\ al.err = Nil

\* C5 (as claimed): after a terminal status other than "successful", the error
\* Go() returns contains every error text of the deployment's allocation events,
\* with the deployment status and the status description.
C5_ErrorCarriesDiagnostics ==
    FailedWithAllocs
        => /\ Contains(result, dep.Status)
           /\ Contains(result, dep.StatusDescription)
           /\ \A t \in ErrorTexts(al.allocs) : Contains(result, t)

\* C5 (amended): after a terminal status other than "successful", every error
\* text of the deployment's allocation events is printed to standard output
\* (rendered by warn), and the error Go() returns contains the deployment status
\* and the status description.
C5_DiagnosticsPrinted ==
    FailedWithAllocs
        => /\ Contains(result, dep.Status)
           /\ Contains(result, dep.StatusDescription)
           /\ \A t \in ErrorTexts(al.allocs) : Contains(stdout, warn(t)[1])

C5_Witness ==
    /\ FailedWithAllocs
    /\ dep.Status = "failed"
    /\ {"driver boom", "setup boom", "vault boom"} \subseteq ErrorTexts(al.allocs)

\* C6: while the deployment reads "running" status keeps polling, one query per
\* read; the read that returns "successful" ends Go() with success at once, after
\* exactly n+1 deployment queries for n "running" reads and no allocation query.
C6_RunningThenSuccessful ==
    /\ (pc = "statusLoop" /\ runningReads < MaxCount) => calls["depInfo"] = runningReads
    /\ (dep.err = Nil /\ dep.Status = "running") => pc = "statusLoop"
    /\ (dep.err = Nil /\ dep.Status = "successful")
        => /\ pc = "done"
           /\ result = Nil
           /\ runningReads < MaxCount => calls["depInfo"] = runningReads + 1
           /\ calls["allocs"] = 0
           /\ al = NilAl
           /\ waitIndex = dep.LastIndex

C6_Witness ==
    /\ pc = "done"
    /\ result = Nil
    /\ dep.Status = "successful"
    /\ runningReads = 2
    /\ calls["depInfo"] = 3

\* C7: when register ended without a deployment identifier, status returns
\* success without any deployment or allocation query, and Go() returns success.
C7_NoDeploymentNoOp ==
    (ran # <<>> /\ Last(ran) = "status" /\ jobDeploymentID = "")
        => /\ pc = "done"
           /\ result = Nil
           /\ calls["depInfo"] = 0
           /\ calls["allocs"] = 0
           /\ dep = NilDep

C7_Witness ==
    /\ pc = "done"
    /\ Last(ran) = "status"
    /\ jobDeploymentID = ""
    /\ ev.Status = "complete"
    /\ ev.Type = "system"
    /\ result = Nil

\* C8: when the deployment ended unsuccessfully and the allocation fetch fails,
\* status still returns the deployment-failure error with the deployment status
\* and the status description: not the fetch's error, and not success.
C8_DiagnosticFailureSwallowed ==
    (pc = "done" /\ al.err # Nil)
        => /\ dep.err = Nil
           /\ dep.Status \notin {"running", "successful"}
           /\ result # Nil
           /\ result # al.err
           /\ result[1] = "deployment failed status: "
           /\ Contains(result, dep.Status)
           /\ Contains(result, dep.StatusDescription)
           /\ stdout = <<>>

C8_Witness ==
    /\ pc = "done"
    /\ al.err = ApiError("allocs")
    /\ dep.Status = "failed"
    /\ schedAllocs # <<>>

\* C9: an evaluation fetch or a deployment fetch that returns an error ends Go()
\* with that error in the same step, after any number of successful rounds: the
\* loop does not sleep, poll again or go on to a later query.
C9_PollingErrorNotRetried ==
    /\ ev.err # Nil
        => /\ pc = "done"
           /\ result = ev.err
           /\ Last(ran) = "register"
           /\ calls["depInfo"] = 0
    /\ dep.err # Nil
        => /\ pc = "done"
           /\ result = dep.err
           /\ calls["allocs"] = 0

C9_Witness ==
    /\ pc = "done"
    /\ dep.err # Nil
    /\ result = ApiError("depInfo")
    /\ runningReads >= 2
    /\ calls["evalInfo"] >= 2

Unparsable == {"absent", "malformed"}

\* C10 (as claimed): loadServiceConfig takes the system job-set's file only if
\* the service job-set has none; it fails with a job file in neither job-set, and
\* for a service without an entry in the datacenter config, before connect.
C10_FallbackOnlyIfAbsent ==
    "loadServiceConfig" \in Range(ran)
        => /\ fn = SystemFileName => serviceFile = "absent"
           /\ (serviceFile = "absent" /\ systemFile = "absent")
                => pc = "done" /\ result # Nil
           /\ Service \notin DOMAIN config.Services
                => pc = "done" /\ result # Nil /\ ran = <<"loadServiceConfig">>

\* C10 (amended): loadServiceConfig takes the service job-set's file when it
\* parses and otherwise (absent or malformed) the system job-set's; it fails when
\* neither parses, and it fails for a service without an entry in the datacenter
\* config even when a job file was loaded, so that connect and validate never run.
C10_LoadServiceConfig ==
    "loadServiceConfig" \in Range(ran)
        => /\ fn = IF serviceFile \in Unparsable THEN SystemFileName ELSE ServiceFileName
           /\ (serviceFile \in Unparsable /\ systemFile \in Unparsable)
                => pc = "done" /\ result # Nil /\ job = NilJob
           /\ pc = "connect"
                => job = JobOf(IF fn = ServiceFileName THEN serviceFile ELSE systemFile)
           /\ Service \notin DOMAIN config.Services
                => /\ pc = "done" /\ result # Nil /\ ran = <<"loadServiceConfig">>
                   /\ cli = NilCli /\ calls["validate"] = 0
           /\ (result = Nil /\ pc # "done")
                => job # NilJob /\ Service \in DOMAIN config.Services

C10_Witness ==
    /\ serviceFile = "malformed"
    /\ systemFile = "jobSys"
    /\ fn = SystemFileName
    /\ pc = "connect"
    /\ job = JobSys

\* The job as loadServiceConfig parsed it, before validate merged the config in.
ParsedJob == JobOf(IF fn = ServiceFileName THEN serviceFile ELSE systemFile)

Validated == "validate" \in Range(ran)

\* The image the datacenter config was loaded with.
StaticImage == "img:static"

\* C11 (as claimed): after validate, every task of the task group named as the
\* service has the deployment image, whatever the task is named, and so has the
\* ServiceConfig whenever the job has such a task group.
C11_ImageAlwaysOverwritten ==
    Validated
        => \A i \in DOMAIN job.TaskGroups :
             job.TaskGroups[i].Name = Service
                => /\ \A k \in DOMAIN job.TaskGroups[i].Tasks :
                        job.TaskGroups[i].Tasks[k].Config.image = Image
                   /\ config.Services[Service].Image = Image

\* C11 (amended): after validate, in the task group named as the service, the
\* tasks named as the service have the deployment image and every other task has
\* the image of the job file; the tasks of the other groups keep theirs; the
\* ServiceConfig has the deployment image if that group has a task named as the
\* service, and its static image otherwise.
C11_ImageOfServiceTask ==
    /\ Validated
        => /\ \A i \in DOMAIN job.TaskGroups : \A k \in DOMAIN job.TaskGroups[i].Tasks :
                LET t == job.TaskGroups[i].Tasks[k]
                IN  /\ t.Name = ParsedJob.TaskGroups[i].Tasks[k].Name
                    /\ t.Config.image =
                         IF job.TaskGroups[i].Name = Service /\ t.Name = Service
                         THEN Image
                         ELSE ParsedJob.TaskGroups[i].Tasks[k].Config.image
           /\ config.Services[Service].Image =
                IF \E i \in DOMAIN ParsedJob.TaskGroups :
                     /\ ParsedJob.TaskGroups[i].Name = Service
                     /\ \E k \in DOMAIN ParsedJob.TaskGroups[i].Tasks :
                          ParsedJob.TaskGroups[i].Tasks[k].Name = Service
                THEN Image
                ELSE StaticImage
    /\ (~Validated /\ Service \in DOMAIN config.Services)
        => config.Services[Service].Image = StaticImage

C11_Witness ==
    /\ Validated
    /\ ParsedJob = JobA
    /\ job.TaskGroups[1].Tasks[1].Config.image = Image
    /\ job.TaskGroups[1].Tasks[2].Config.image = "side:1"
    /\ config.Services[Service].Image = Image

\* C12: after validate, the task group named as the service has the config's
\* count if that count is positive and the count of the job file if it is 0;
\* every other task group keeps the count of the job file.
C12_CountOverride ==
    Validated
        => /\ Len(job.TaskGroups) = Len(ParsedJob.TaskGroups)
           /\ \A i \in DOMAIN job.TaskGroups :
                /\ job.TaskGroups[i].Name = ParsedJob.TaskGroups[i].Name
                /\ job.TaskGroups[i].Count =
                     IF /\ job.TaskGroups[i].Name = Service
                        /\ config.Services[Service].Count > 0
                     THEN config.Services[Service].Count
                     ELSE ParsedJob.TaskGroups[i].Count

\* A positive count reached the matching group and not the other one.
C12_Witness ==
    /\ Validated
    /\ ParsedJob = JobA
    /\ config.Services[Service].Count = 3
    /\ job.TaskGroups[1].Count = 3
    /\ job.TaskGroups[2].Count = 2

\* The placement fields of a service's config, in the order validate reads them.
ConstraintKeys == << "${meta.dc_region}", "${meta.hostgroup}", "${meta.node}" >>

ConstraintValues(s) == << s.DcRegion, s.HostGroup, s.Node >>

\* The constraints validate appended to those of the job file.
AddedConstraints == SubSeq(job.Constraints, Len(ParsedJob.Constraints) + 1, Len(job.Constraints))

\* C13: after validate, the job has, after the constraints of the job file,
\* exactly one constraint `key = value` for each non-empty one of dcRegion,
\* hostGroup and node, and none for an empty one: as many constraints were added
\* as there are non-empty fields.
C13_PlacementConstraints ==
    Validated
        => LET s == config.Services[Service]
               added == AddedConstraints
           IN  /\ IsPrefix(ParsedJob.Constraints, job.Constraints)
               /\ Len(added) = Cardinality({f \in 1..3 : ConstraintValues(s)[f] # ""})
               /\ \A f \in 1..3 :
                    LET of == {n \in DOMAIN added : added[n].LTarget = ConstraintKeys[f]}
                    IN  IF ConstraintValues(s)[f] = ""
                        THEN of = {}
                        ELSE /\ Cardinality(of) = 1
                             /\ \A n \in of :
                                  added[n] = NewConstraint(ConstraintKeys[f], "=", ConstraintValues(s)[f])

\* Two of the three fields are set: two constraints follow that of the job file.
C13_Witness ==
    /\ Validated
    /\ ParsedJob = JobSys
    /\ config.Services[Service].DcRegion = ""
    /\ config.Services[Service].HostGroup = "app"
    /\ config.Services[Service].Node = "app1"
    /\ Len(job.Constraints) = Len(JobSys.Constraints) + 2

\* C14: FindForDc(s, dc) returns the service exactly if dc is a key of the
\* datacenters map and s a key of that datacenter's services, and then it is
\* that datacenter's entry; otherwise, for an unknown datacenter or a service
\* that only another datacenter has, it returns absent; no call changes the
\* configuration.
C14_FindForDc ==
    /\ [](lookup # NoLookup
            => LET dcs == deploymentConfig.Datacenters
                   known == /\ lookup.dc \in DOMAIN dcs
                            /\ lookup.service \in DOMAIN dcs[lookup.dc].Services
               IN  /\ lookup.ret.found <=> known
                   /\ known => lookup.ret.svc = dcs[lookup.dc].Services[lookup.service]
                   /\ ~known => lookup.ret = NotFound)
    /\ [][deploymentConfig' = deploymentConfig]_vars

\* The service is in another datacenter only, and the lookup says absent.
C14_Witness ==
    /\ lookup.service = "service_test1"
    /\ lookup.dc = "datacenter2"
    /\ "datacenter2" \in DOMAIN deploymentConfig.Datacenters
    /\ "datacenter1" \in DOMAIN deploymentConfig.Datacenters
    /\ "service_test1" \in DOMAIN deploymentConfig.Datacenters["datacenter1"].Services
    /\ "service_test1" \notin DOMAIN deploymentConfig.Datacenters["datacenter2"].Services
    /\ ~lookup.ret.found

\* In status's loop, about to send a query.
Polling == pc = "statusLoop"

\* C15 (as claimed): the first query uses wait index 1, each follow-up uses the
\* last index of the preceding response, and over any sequence of responses,
\* stale ones included, the wait index of a query is never lower than that of the
\* query before it.
C15_WaitIndexNeverLower ==
    /\ [](Polling /\ calls["depInfo"] = 0 => waitIndex = 1)
    /\ [](Polling /\ calls["depInfo"] > 0 => waitIndex = dep.LastIndex)
    /\ [][Polling /\ Polling' => waitIndex' >= waitIndex]_vars

\* C15 (amended): the first query uses wait index 1 and each follow-up uses the
\* last index the preceding response reported, whatever it is; outside the loop
\* the wait index is the one status left.
C15_WaitIndexFollowsResponse ==
    /\ Polling /\ calls["depInfo"] = 0 => waitIndex = 1
    /\ Polling /\ calls["depInfo"] > 0 => dep.err = Nil /\ waitIndex = dep.LastIndex
    /\ ~Polling /\ dep.err = Nil /\ dep # NilDep => waitIndex = dep.LastIndex
    /\ dep = NilDep => waitIndex \in {0, 1}

\* A second follow-up query is about to go out with the index of the response
\* before it, which a stale server reported behind the scheduler's index.
C15_Witness ==
    /\ Polling
    /\ calls["depInfo"] >= 2
    /\ waitIndex = dep.LastIndex
    /\ waitIndex > 1
    /\ waitIndex < raftIndex

\* C16 (as claimed): the client connect stores is configured with the
\* DatacenterConfig's region, which is the region validate writes into the job,
\* and with the caller's bootstrap address; after a successful connect the
\* client is stored.
C16_ClientBoundToRegion ==
    /\ cli # NilCli
        => /\ cli.Region = config.Region
           /\ cli.Address = Address
           /\ Validated => cli.Region = job.Region
    /\ Validated => cli # NilCli

\* The stored client carries the datacenter identifier as its region, beside a
\* job whose region is the DatacenterConfig's region.
C16_Witness ==
    /\ Validated
    /\ cli # NilCli
    /\ cli.Region = config.Dc
    /\ cli.Address = Address
    /\ job.Region = config.Region
    /\ cli.Region # job.Region

\* C17: each run-state field is written by one step and at most once:
\* jobModifyIndex by plan (which runs once) with the index the plan returned,
\* jobEvalID by register with the evaluation the register created, and
\* jobDeploymentID by the evaluation-wait loop, which then ends, with the
\* evaluation's deployment; every other step leaves them as they are. The
\* enforced register goes through only with the index plan stored, the
\* evaluation read is the one jobEvalID names and the deployment read is the one
\* jobDeploymentID names.
C17_RunStateWriteOnce ==
    /\ [][/\ pc = "plan" /\ pc' = "register" => jobModifyIndex' = schedJob.index
          /\ jobModifyIndex' # jobModifyIndex => pc = "plan"
          /\ jobEvalID' # jobEvalID
                => /\ pc = "register"
                   /\ jobEvalID = ""
                   /\ jobEvalID' = schedEval'.ID
                   /\ jobModifyIndex = schedJob.index
          /\ jobDeploymentID' # jobDeploymentID
                => /\ pc = "getDeploymentID"
                   /\ jobDeploymentID = ""
                   /\ jobDeploymentID' = schedEval.DeploymentID
                   /\ jobDeploymentID' = schedDep.ID
                   /\ pc' = "status"]_vars
    /\ [](/\ \A i, j \in DOMAIN ran : ran[i] = ran[j] => i = j
          /\ "plan" \notin Range(ran) => jobModifyIndex = 0
          /\ "register" \notin Range(ran) => jobEvalID = "" /\ jobDeploymentID = ""
          /\ ev.err = Nil /\ ev # NilEval => jobEvalID # "" /\ jobEvalID = schedEval.ID
          /\ dep.err = Nil /\ dep # NilDep
                => jobDeploymentID # "" /\ jobDeploymentID = schedDep.ID)

\* All three fields are written and the deployment they name has been read.
C17_Witness ==
    /\ jobModifyIndex = 1
    /\ jobEvalID = "eval1"
    /\ jobDeploymentID # ""
    /\ dep.err = Nil
    /\ dep # NilDep
    /\ pc = "done"

\* C18: Go() has returned success only if the last deployment read, for the
\* captured identifier, was "successful", or if no identifier was captured, no
\* deployment was read and the last evaluation read was "complete" with a type
\* other than service; a read of a deployment that is neither running nor
\* successful is followed by an error, and a service-type job succeeds only with
\* a successful deployment read.
C18_SuccessOnlyIfObserved ==
    /\ pc = "done" /\ result = Nil
        => \/ /\ jobDeploymentID # ""
              /\ dep.err = Nil
              /\ dep.Status = "successful"
           \/ /\ jobDeploymentID = ""
              /\ dep = NilDep
              /\ ev.err = Nil
              /\ ev.DeploymentID = ""
              /\ ev.Status = "complete"
              /\ ev.Type # "service"
    /\ pc = "done" /\ result = Nil /\ job.Type = "service"
        => dep.err = Nil /\ dep.Status = "successful"
    /\ dep.err = Nil /\ dep # NilDep /\ dep.Status \notin {"running", "successful"}
        => pc = "done" /\ result # Nil

\* A service job whose deployment was read successful: Go() returned success.
C18_Witness ==
    /\ pc = "done"
    /\ result = Nil
    /\ job.Type = "service"
    /\ jobDeploymentID # ""
    /\ dep.Status = "successful"

\* C19: status's loop has no cap. It is left only on a fetch error or on a read
\* of a status other than "running", so on a deployment that stays running
\* Go() does not return; a running read, however many came before, is followed by
\* another query; and, the Deployer being scheduled fairly, once the deployment
\* has left "running" Go() eventually returns.
C19_StatusPollUncapped ==
    /\ [][Polling /\ ~Polling' => dep'.err # Nil \/ dep'.Status # "running"]_vars
    /\ [](dep.err = Nil /\ dep.Status = "running" => Polling)
    /\ (Polling /\ schedDep.Status # "running") ~> (pc = "done")

\* After as many running reads as are counted, the deployment was cancelled and
\* Go() has returned.
C19_Witness ==
    /\ pc = "done"
    /\ runningReads = MaxCount
    /\ dep.err = Nil
    /\ dep.Status = "cancelled"
    /\ result # Nil

\* C20: register is called at most once; the Deployer writes the scheduler's
\* job in register only; and once the enforced register went through, the job
\* stays as the Deployer registered it through every later step and failure.
C20_NoRollback ==
    /\ [](calls["register"] <= 1)
    /\ [](jobEvalID # "" => schedJob.owner = "deployer" /\ schedJob.index > 0)
    /\ [][schedJob' # schedJob /\ schedJob'.owner = "deployer" => pc = "register"]_vars
    /\ [][jobEvalID # "" => schedJob' = schedJob]_vars

\* Go() failed on a failed deployment and the job is still registered.
C20_Witness ==
    /\ pc = "done"
    /\ result # Nil
    /\ jobEvalID # ""
    /\ dep.Status = "failed"
    /\ schedJob.owner = "deployer"

====
